---------------------------- MODULE Spec2Model ----------------------------
(***************************************************************************)
(* The realtime audio session of the AudioSuite component                  *)
(* (src/unnamed/part_001): startLiveSession, stopLiveSession,              *)
(* togglePauseOutput, the four transport callbacks, the capture callback   *)
(* and the playback scheduler, together with formatGeminiError             *)
(* (src/unnamed/part_000).                                                 *)
(*                                                                         *)
(* Every call of startLiveSession creates its own objects (two audio       *)
(* contexts, a microphone stream, a transport session, a capture node).    *)
(* The calls are numbered 1, 2, ... in the order they are made and the     *)
(* objects of call s are found at index s of the functions below.  A ref   *)
(* holds the number of the call whose object it points to, 0 for null.     *)
(* React state setters are modelled by their net effect on the state the   *)
(* next render sees: of several sets in one handler the last one wins.     *)
(***************************************************************************)
EXTENDS Integers, Sequences, FiniteSets, TLC

\* ------------------------------------------------------------ bounds
MaxSessions == 2      \* startLiveSession calls in one run
MaxBuffers  == 2      \* playback buffers scheduled in one run
MaxTime     == 2      \* ticks of each output clock
MaxDur      == 2      \* longest buffer, in ticks
MaxPending  == 2      \* onmessage handlers suspended at their await
MaxFrame    == 4      \* samples in one captured frame
MaxChannels == 2      \* channels decodeAudioData is asked for
MaxRaf      == 3      \* animation frames requested in one run

Sessions  == 1..MaxSessions
Durations == 1..MaxDur

\* ------------------------------------------------------------ values
Tabs == {"LIVE", "TTS", "TRANSLATOR", "LIVE_TRANSCRIBE"}

ConnectionStates == {"DISCONNECTED", "CONNECTING", "CONNECTED", "ERROR"}

\* A string is a sequence of words; null is the empty sequence (the only
\* falsy value `error` ever takes).
Null == << >>

VARIABLES
  tab, liveActive, error, isOutputPaused, connectionState, settings,
  isTtsProcessing,
  audioContextRef, inputContextRef, sessionPromiseRef,
  scriptProcessorRef, mediaStreamRef,
  sourcesRef, nextStartTimeRef,
  nCalls,          \* startLiveSession calls made so far
  pc,              \* where call s stands: "unused", "awaitMic", "returned", "failed"
  inputCtx,        \* state of the input AudioContext of call s
  outputCtx,       \* state of the output AudioContext of call s
  currentTime,     \* clock of the output AudioContext of call s
  stream,          \* microphone stream of call s: "none", "live", "stopped"
  processor,       \* capture node of call s: "none", "connected", "disconnected"
  transport,       \* session of call s: "none", "pending", "open", "closing", "closed"
  closeRequested,  \* a then(session.close) callback is registered on the promise of call s
  settingsOf,      \* the `settings` constant the closures of call s captured: the
                   \* state of the render whose startLiveSession was called
  sampleRate,      \* the sample rates the two contexts of call s were created with
  bufferSize,      \* the buffer size the capture node of call s was created with
  pendingMsg,      \* onmessage handlers suspended at `await decodeAudioData`
  scheduled,       \* observer: every buffer source started so far, in order
  endedSeen,       \* observer: the buffer sources whose 'ended' event has fired
  stoppedInStart,  \* observer: stopLiveSession ran while call s was still in progress
  transportEnded,  \* observer: onclose or onerror has ended a session (one that no
                   \* stop had closed) since the last call of startLiveSession
  lastSent,        \* observer: the call on whose session the step just taken
                   \* handed a captured frame to sendRealtimeInput, 0 if none
  inputData,       \* the samples createBlob was applied to in that step
  pcmBlob,         \* the blob createBlob made of them
  audioBuf,        \* the buffer decodeAudioData made of a blob's data
  mounted,         \* the component is mounted
  effectDeps,      \* <<tab, liveActive>> of the render whose visualizer effect
                   \* ran last
  animationFrameRef, \* the id requestAnimationFrame returned last, 0 for null
  rafPending,      \* ids of the frame callbacks requested and neither run nor
                   \* cancelled
  rafCount         \* animation frames requested so far (ids are 1, 2, ...)

reactState == <<tab, liveActive, error, isOutputPaused, connectionState,
                settings, isTtsProcessing>>
refs       == <<audioContextRef, inputContextRef, sessionPromiseRef,
                scriptProcessorRef, mediaStreamRef>>
playback   == <<sourcesRef, nextStartTimeRef, pendingMsg, scheduled, endedSeen>>
config     == <<settingsOf, sampleRate, bufferSize>>
objects    == <<inputCtx, outputCtx, currentTime, stream, processor,
                transport, closeRequested, config>>
observers  == <<stoppedInStart, transportEnded, lastSent, inputData, pcmBlob,
               audioBuf>>
visual     == <<mounted, effectDeps, animationFrameRef, rafPending, rafCount>>
vars == <<reactState, refs, playback, objects, nCalls, pc, observers, visual>>

Max(a, b) == IF a >= b THEN a ELSE b

\* No blob, no buffer.
NoBlob == [data |-> << >>, mimeType |-> << >>]
NoBuffer == [exception |-> "", sampleRate |-> 0, numberOfChannels |-> 0,
             length |-> 0, channelData |-> << >>]

\* What a call that was not made has captured.
NoSettings == [inputSampleRate |-> 0, outputSampleRate |-> 0, bufferSize |-> 0]

InitLive ==
  /\ tab = "LIVE"
  /\ liveActive = FALSE
  /\ error = Null
  /\ isOutputPaused = FALSE
  /\ isTtsProcessing = FALSE
  /\ mounted = TRUE
  /\ effectDeps = <<"LIVE", FALSE>>
  /\ animationFrameRef = 0
  /\ rafPending = {}
  /\ rafCount = 0
  /\ connectionState = "DISCONNECTED"
  /\ settings = [inputSampleRate |-> 16000, outputSampleRate |-> 24000,
                 bufferSize |-> 4096]
  /\ audioContextRef = 0
  /\ inputContextRef = 0
  /\ sessionPromiseRef = 0
  /\ scriptProcessorRef = 0
  /\ mediaStreamRef = 0
  /\ sourcesRef = {}
  /\ endedSeen = {}
  /\ nextStartTimeRef = 0
  /\ nCalls = 0
  /\ pc = [s \in Sessions |-> "unused"]
  /\ inputCtx = [s \in Sessions |-> "none"]
  /\ outputCtx = [s \in Sessions |-> "none"]
  /\ currentTime = [s \in Sessions |-> 0]
  /\ stream = [s \in Sessions |-> "none"]
  /\ processor = [s \in Sessions |-> "none"]
  /\ transport = [s \in Sessions |-> "none"]
  /\ closeRequested = [s \in Sessions |-> FALSE]
  /\ settingsOf = [s \in Sessions |-> NoSettings]
  /\ sampleRate = [s \in Sessions |-> [input |-> 0, output |-> 0]]
  /\ bufferSize = [s \in Sessions |-> 0]
  /\ pendingMsg = << >>
  /\ scheduled = << >>
  /\ stoppedInStart = [s \in Sessions |-> FALSE]
  /\ transportEnded = FALSE
  /\ lastSent = 0

Init ==
  /\ InitLive
  /\ inputData = << >>
  /\ pcmBlob = NoBlob
  /\ audioBuf = NoBuffer

\* ------------------------------------------------------------ PCM codec
\* A sample is a number of half steps of the 16-bit scale: the sample value
\* is n / (2 * Scale), so 1.0 is 2 * Scale and -1.0 is -2 * Scale.  Half
\* steps are the values the truncation in createBlob tells apart from the
\* 16-bit grid.
Scale == 32768

FullScale == 2 * Scale

\* Number -> integer, rounding toward zero (the first step of the
\* conversion a typed array applies to a stored value).
Trunc(n, d) == IF n >= 0 THEN n \div d ELSE -((-n) \div d)

\* The conversion of an Int16Array store: modulo 2^16, read as signed.
ToInt16(v) ==
  LET m == v % 65536 IN IF m >= 32768 THEN m - 65536 ELSE m

\* new Uint8Array(int16.buffer): two bytes per element, low byte first.
Uint8Array(int16) ==
  [k \in 1..(2 * Len(int16)) |->
     LET u == int16[(k + 1) \div 2] % 65536 IN
       IF k % 2 = 1 THEN u % 256 ELSE u \div 256]

\* new Int16Array(bytes.buffer): the inverse view.
Int16Array(bytes) ==
  [i \in 1..(Len(bytes) \div 2) |->
     ToInt16(bytes[2 * i - 1] + 256 * bytes[2 * i])]

RECURSIVE btoa(_)
\* Base64 of a byte string: the indices of the characters in the base64
\* alphabet, 64 standing for the padding character.
btoa(b) ==
  IF Len(b) = 0 THEN << >>
  ELSE IF Len(b) = 1
    THEN << b[1] \div 4, (b[1] % 4) * 16, 64, 64 >>
  ELSE IF Len(b) = 2
    THEN << b[1] \div 4, (b[1] % 4) * 16 + b[2] \div 16, (b[2] % 16) * 4, 64 >>
  ELSE << b[1] \div 4, (b[1] % 4) * 16 + b[2] \div 16,
          (b[2] % 16) * 4 + b[3] \div 64, b[3] % 64 >>
       \o btoa(SubSeq(b, 4, Len(b)))

RECURSIVE atob(_)
atob(c) ==
  IF Len(c) = 0 THEN << >>
  ELSE IF c[3] = 64
    THEN << c[1] * 4 + c[2] \div 16 >>
  ELSE IF c[4] = 64
    THEN << c[1] * 4 + c[2] \div 16, (c[2] % 16) * 16 + c[3] \div 4 >>
  ELSE << c[1] * 4 + c[2] \div 16, (c[2] % 16) * 16 + c[3] \div 4,
          (c[3] % 4) * 64 + c[4] >>
       \o atob(SubSeq(c, 5, Len(c)))

\* createBlob: data[i] * 32768 (of n half steps: n / 2) stored into an
\* Int16Array, the bytes of the array as a binary string, base64; the MIME
\* descriptor is a literal.
createBlob(data) ==
  LET int16 == [i \in 1..Len(data) |->
                  ToInt16(Trunc(data[i], 2))]
  IN [data |-> btoa(Uint8Array(int16)),
      mimeType |-> <<"audio/pcm;rate=", 16000>>]

\* decode: base64 -> bytes.
decode(base64) == atob(base64)

\* ctx.createBuffer: the length is converted to unsigned long (a fraction
\* is dropped); a length of zero throws NotSupportedError (the record then
\* keeps the channel count the call was given); the channels start silent.
createBuffer(numChannels, frameCount, rate) ==
  IF frameCount.num \div frameCount.den = 0
    THEN [NoBuffer EXCEPT !.exception = "NotSupportedError",
                          !.numberOfChannels = numChannels]
    ELSE [exception |-> "", sampleRate |-> rate,
          numberOfChannels |-> numChannels,
          length |-> frameCount.num \div frameCount.den,
          channelData |-> [c \in 1..numChannels |->
                             [i \in 1..(frameCount.num \div frameCount.den)
                                |-> 0]]]

\* buffer.getChannelData(channel), channels counted from 0.
getChannelData(buffer, channel) == buffer.channelData[channel + 1]

\* A variant of decodeAudioData that reads the samples channel after
\* channel instead of interleaved.
decodeAudioData_Planar(data, rate, numChannels) ==
  LET dataInt16 == Int16Array(data)
      frameCount == [num |-> Len(dataInt16), den |-> numChannels]
      buffer == createBuffer(numChannels, frameCount, rate)
  IN IF buffer.exception # "" THEN buffer
     ELSE [buffer EXCEPT !.channelData =
             [c \in 1..numChannels |->
                [i \in 1..buffer.length |->
                   dataInt16[(c - 1) * buffer.length + (i - 1) + 1] * 2]]]

\* decodeAudioData: frameCount = dataInt16.length / numChannels (a
\* quotient, kept as numerator and denominator); sample i of channel c is
\* dataInt16[i * numChannels + c] / 32768 (in half steps: times two) for
\* every i < frameCount; a store beyond the length of a channel is ignored.
decodeAudioData(data, rate, numChannels) ==
  LET dataInt16 == Int16Array(data)
      frameCount == [num |-> Len(dataInt16), den |-> numChannels]
      buffer == createBuffer(numChannels, frameCount, rate)
  IN IF buffer.exception # "" THEN buffer
     ELSE [buffer EXCEPT !.channelData =
             [c \in 1..numChannels |->
                [i \in 1..buffer.length |->
                   dataInt16[(i - 1) * numChannels + (c - 1) + 1] * 2]]]

\* ------------------------------------------------------------ error text
\* Strings are cut into tokens so that every needle formatGeminiError looks
\* for is a run of whole tokens; `includes` is then "occurs as a contiguous
\* run of tokens".
Includes(hay, needle) ==
  \E i \in 0..(Len(hay) - Len(needle)) :
     \A j \in 1..Len(needle) : hay[i + j] = needle[j]

LowerTok(w) ==
  CASE w = "Microphone" -> "microphone"
    [] w = "Please"     -> "please"
    [] w = "No"         -> "no"
    [] w = "Could"      -> "could"
    [] w = "Too"        -> "too"
    [] w = "Many"       -> "many"
    [] w = "Requests"   -> "requests"
    [] w = "Error"      -> "error"
    [] w = "Event"      -> "event"
    [] OTHER            -> w

toLowerCase(str) == [i \in 1..Len(str) |-> LowerTok(str[i])]

\* An error object: its `message` (Null when absent or empty) and what
\* toString() gives.
NewError(message) == [message |-> message, str |-> <<"Error", ":">> \o message]

MicDeniedMsg ==
  <<"Microphone", "access", "denied", ".", "Please", "allow", "microphone",
    "permissions", "in", "your", "browser", "settings", ".">>
MicNotFoundMsg ==
  <<"No", "microphone", "found", ".", "Please", "check", "your", "audio",
    "input", "device", ".">>
MicOtherMsg ==
  <<"Could", "not", "access", "audio", "device", ".", "Please", "check",
    "your", "system", "settings", ".">>

\* The names getUserMedia may reject with (the two aliases of each kind the
\* code tests for, and one name of neither kind).
MicErrorNames ==
  {"NotAllowedError", "PermissionDeniedError", "NotFoundError",
   "DevicesNotFoundError", "NotReadableError"}

\* A variant of MicErrorFor without the device-not-found kind.
MicErrorFor_NoDeviceKind(name) ==
  IF name = "NotAllowedError" \/ name = "PermissionDeniedError"
    THEN NewError(MicDeniedMsg)
  ELSE NewError(MicOtherMsg)

MicErrorFor(name) ==
  IF name = "NotAllowedError" \/ name = "PermissionDeniedError"
    THEN NewError(MicDeniedMsg)
  ELSE IF name = "NotFoundError" \/ name = "DevicesNotFoundError"
    THEN NewError(MicNotFoundMsg)
  ELSE NewError(MicOtherMsg)

\* What the transport may hand to onerror: a rate-limit error and an
\* ErrorEvent that carries no message.
TransportErrors ==
  { NewError(<<"429", "Too", "Many", "Requests">>),
    [message |-> Null, str |-> <<"[", "object", "Event", "]">>] }

formatGeminiError(e) ==
  LET msg == toLowerCase(IF e.message # Null THEN e.message ELSE e.str) IN
  IF Includes(msg, <<"google", "maps", "tool", "is", "not", "enabled">>)
    THEN <<"Google", "Maps", "Grounding", "is", "not", "enabled", "for",
           "this", "model", ".">>
  ELSE IF Includes(msg, <<"400">>)
    THEN <<"Invalid", "request", "(", "400", ")", ".">>
  ELSE IF Includes(msg, <<"401">>)
    THEN <<"Invalid", "API", "Key", "(", "401", ")", ".">>
  ELSE IF Includes(msg, <<"403">>)
    THEN <<"Access", "Denied", "(", "403", ")", ".">>
  ELSE IF Includes(msg, <<"404">>)
    THEN <<"Model", "not", "found", "(", "404", ")", ".">>
  ELSE IF Includes(msg, <<"429">>)
    THEN <<"Rate", "limit", "exceeded", "(", "429", ")", ".">>
  ELSE IF Includes(msg, <<"500">>) \/ Includes(msg, <<"503">>)
    THEN <<"Google", "Service", "Error", "(", "5xx", ")", ".">>
  ELSE IF Includes(msg, <<"safety">>)
    THEN <<"Response", "blocked", "by", "safety", "filters", ".">>
  ELSE IF Includes(msg, <<"fetch", "failed">>) \/ Includes(msg, <<"networkerror">>)
    THEN <<"Network", "connection", "failed", ".">>
  ELSE IF e.message # Null THEN e.message
  ELSE <<"An", "unexpected", "error", "occurred", ".">>

\* ------------------------------------------------------------ teardown
\* A variant of stopLiveSession in which close() on a context that is
\* already closed is neither guarded nor caught: the exception ends the
\* handler before its two state setters.
stopLiveSession_NoStateGuard(tr) ==
  /\ closeRequested' =
       IF sessionPromiseRef # 0
         THEN [closeRequested EXCEPT ![sessionPromiseRef] = TRUE]
         ELSE closeRequested
  /\ transport' =
       IF sessionPromiseRef # 0 /\ tr[sessionPromiseRef] = "open"
         THEN [tr EXCEPT ![sessionPromiseRef] = "closing"]
         ELSE tr
  /\ processor' =
       IF scriptProcessorRef # 0
         THEN [processor EXCEPT ![scriptProcessorRef] = "disconnected"]
         ELSE processor
  /\ stream' =
       IF mediaStreamRef # 0
         THEN [stream EXCEPT ![mediaStreamRef] = "stopped"]
         ELSE stream
  /\ inputCtx' =
       IF inputContextRef # 0 /\ inputCtx[inputContextRef] # "closed"
         THEN [inputCtx EXCEPT ![inputContextRef] = "closed"]
         ELSE inputCtx
  /\ outputCtx' =
       IF audioContextRef # 0 /\ outputCtx[audioContextRef] # "closed"
         THEN [outputCtx EXCEPT ![audioContextRef] = "closed"]
         ELSE outputCtx
  /\ LET threw == \/ inputContextRef # 0 /\ inputCtx[inputContextRef] = "closed"
                  \/ audioContextRef # 0 /\ outputCtx[audioContextRef] = "closed"
     IN /\ liveActive' = IF threw THEN liveActive ELSE FALSE
        /\ connectionState' = IF threw THEN connectionState ELSE "DISCONNECTED"

\* stopLiveSession, run when the transports are in state tr (onerror calls it
\* after the failing transport has left the open state).  It acts on the
\* objects the refs point to at that moment and on nothing else.  The
\* then(session.close) callback runs at once when the promise is resolved
\* and otherwise waits for it; close() on a closing or closed session and
\* stop() on a stopped track do nothing.
stopLiveSession(tr) ==
  /\ closeRequested' =
       IF sessionPromiseRef # 0
         THEN [closeRequested EXCEPT ![sessionPromiseRef] = TRUE]
         ELSE closeRequested
  /\ transport' =
       IF sessionPromiseRef # 0 /\ tr[sessionPromiseRef] = "open"
         THEN [tr EXCEPT ![sessionPromiseRef] = "closing"]
         ELSE tr
  /\ processor' =
       IF scriptProcessorRef # 0
         THEN [processor EXCEPT ![scriptProcessorRef] = "disconnected"]
         ELSE processor
  /\ stream' =
       IF mediaStreamRef # 0
         THEN [stream EXCEPT ![mediaStreamRef] = "stopped"]
         ELSE stream
  /\ inputCtx' =
       IF inputContextRef # 0 /\ inputCtx[inputContextRef] # "closed"
         THEN [inputCtx EXCEPT ![inputContextRef] = "closed"]
         ELSE inputCtx
  /\ outputCtx' =
       IF audioContextRef # 0 /\ outputCtx[audioContextRef] # "closed"
         THEN [outputCtx EXCEPT ![audioContextRef] = "closed"]
         ELSE outputCtx
  /\ liveActive' = FALSE
  /\ connectionState' = "DISCONNECTED"

\* No handler runs between an onmessage handler's await and its
\* continuation except other onmessage handlers: the awaited promise is
\* already resolved, so the continuation is a microtask.
Idle == pendingMsg = << >>

\* ------------------------------------------------------------ user actions
\* The Start Live button (shown on the LIVE tab while liveActive is false):
\* startLiveSession up to its await of getUserMedia.
startLiveSession ==
  /\ Idle
  /\ tab = "LIVE" /\ ~liveActive
  /\ nCalls < MaxSessions
  /\ LET s == nCalls + 1 IN
       /\ nCalls' = s
       /\ error' = Null
       /\ isOutputPaused' = FALSE
       /\ connectionState' = "CONNECTING"
       /\ settingsOf' = [settingsOf EXCEPT ![s] = settings]
       /\ sampleRate' = [sampleRate EXCEPT ![s] =
                           [input |-> settings.inputSampleRate,
                            output |-> settings.outputSampleRate]]
       /\ inputCtx' = [inputCtx EXCEPT ![s] = "running"]
       /\ outputCtx' = [outputCtx EXCEPT ![s] = "running"]
       /\ inputContextRef' = s
       /\ audioContextRef' = s
       /\ pc' = [pc EXCEPT ![s] = "awaitMic"]
  /\ UNCHANGED <<isTtsProcessing, tab, liveActive, settings, bufferSize, sessionPromiseRef, scriptProcessorRef,
                 mediaStreamRef, playback, currentTime, stream, processor,
                 transport, closeRequested>>

\* A variant of getUserMediaResolved that wires the capture node right after
\* ai.live.connect instead of inside onopen.
getUserMediaResolved_WiresCapture(s) ==
  /\ Idle
  /\ pc[s] = "awaitMic"
  /\ stream' = [stream EXCEPT ![s] = "live"]
  /\ mediaStreamRef' = s
  /\ transport' = [transport EXCEPT ![s] = "pending"]
  /\ sessionPromiseRef' = s
  /\ processor' = [processor EXCEPT ![s] = "connected"]
  /\ bufferSize' = [bufferSize EXCEPT ![s] = settingsOf[s].bufferSize]
  /\ scriptProcessorRef' = s
  /\ pc' = [pc EXCEPT ![s] = "returned"]
  /\ UNCHANGED <<reactState, settingsOf, sampleRate, audioContextRef, inputContextRef,
                 playback, inputCtx, outputCtx, currentTime,
                 closeRequested, nCalls>>

\* getUserMedia resolves: call s keeps the stream and issues ai.live.connect.
getUserMediaResolved(s) ==
  /\ Idle
  /\ pc[s] = "awaitMic"
  /\ stream' = [stream EXCEPT ![s] = "live"]
  /\ mediaStreamRef' = s
  /\ transport' = [transport EXCEPT ![s] = "pending"]
  /\ sessionPromiseRef' = s
  /\ pc' = [pc EXCEPT ![s] = "returned"]
  /\ UNCHANGED <<reactState, config, audioContextRef, inputContextRef,
                 scriptProcessorRef, playback, inputCtx, outputCtx,
                 currentTime, processor, closeRequested, nCalls>>

\* A variant of getUserMediaRejected in which neither catch block sets the
\* connection state.
getUserMediaRejected_KeepsState(s, name) ==
  /\ Idle
  /\ pc[s] = "awaitMic"
  /\ error' = formatGeminiError(MicErrorFor(name))
  /\ pc' = [pc EXCEPT ![s] = "failed"]
  /\ UNCHANGED <<isTtsProcessing, settings, tab, liveActive, isOutputPaused, connectionState, refs,
                 playback, objects, nCalls>>

\* getUserMedia rejects with an error of the given name: the inner catch
\* rethrows one of three messages and the outer catch shows it.
getUserMediaRejected(s, name) ==
  /\ Idle
  /\ pc[s] = "awaitMic"
  /\ error' = formatGeminiError(MicErrorFor(name))
  /\ connectionState' = "ERROR"
  /\ pc' = [pc EXCEPT ![s] = "failed"]
  /\ UNCHANGED <<isTtsProcessing, settings, tab, liveActive, isOutputPaused, refs, playback, objects,
                 nCalls>>

\* The End Session button (shown on the LIVE tab while liveActive is true).
EndSession ==
  /\ Idle
  /\ tab = "LIVE" /\ liveActive
  /\ stopLiveSession(transport)
  /\ UNCHANGED <<isTtsProcessing, settings, config, tab, error, isOutputPaused, refs, playback, currentTime,
                 nCalls, pc>>

\* A tab button: setTab, stopLiveSession, setError(null).
TabClick(t) ==
  /\ Idle
  /\ tab' = t
  /\ stopLiveSession(transport)
  /\ error' = Null
  /\ UNCHANGED <<isTtsProcessing, settings, config, isOutputPaused, refs, playback, currentTime, nCalls, pc>>

\* A variant of togglePauseOutput that restarts the schedule at the clock
\* of the context it resumes or suspends.
togglePauseOutput_MovesCursor ==
  /\ Idle
  /\ tab = "LIVE" /\ liveActive
  /\ audioContextRef # 0
  /\ outputCtx' =
       IF isOutputPaused /\ outputCtx[audioContextRef] = "suspended"
         THEN [outputCtx EXCEPT ![audioContextRef] = "running"]
       ELSE IF ~isOutputPaused /\ outputCtx[audioContextRef] = "running"
         THEN [outputCtx EXCEPT ![audioContextRef] = "suspended"]
       ELSE outputCtx
  /\ isOutputPaused' = ~isOutputPaused
  /\ nextStartTimeRef' = currentTime[audioContextRef]
  /\ UNCHANGED <<isTtsProcessing, settings, config, tab, liveActive, error, connectionState, refs, sourcesRef,
                 pendingMsg, scheduled, endedSeen, inputCtx, currentTime, stream,
                 processor, transport, closeRequested, nCalls, pc>>

\* The Pause/Resume button (shown on the LIVE tab while liveActive is true).
\* suspend() and resume() on a closed context reject and change nothing.
togglePauseOutput ==
  /\ Idle
  /\ tab = "LIVE" /\ liveActive
  /\ audioContextRef # 0
  /\ outputCtx' =
       IF isOutputPaused /\ outputCtx[audioContextRef] = "suspended"
         THEN [outputCtx EXCEPT ![audioContextRef] = "running"]
       ELSE IF ~isOutputPaused /\ outputCtx[audioContextRef] = "running"
         THEN [outputCtx EXCEPT ![audioContextRef] = "suspended"]
       ELSE outputCtx
  /\ isOutputPaused' = ~isOutputPaused
  /\ UNCHANGED <<isTtsProcessing, settings, config, tab, liveActive, error, connectionState, refs, playback,
                 inputCtx, currentTime, stream, processor, transport,
                 closeRequested, nCalls, pc>>

\* handleSettingChange(key, value), from the settings panel (open in any
\* state of the session).
handleSettingChange(key, value) ==
  /\ Idle
  /\ settings' = [settings EXCEPT ![key] = value]
  /\ UNCHANGED <<isTtsProcessing, tab, liveActive, error, isOutputPaused, connectionState,
                 refs, playback, objects, nCalls, pc>>

\* ------------------------------------------------------------ transport callbacks
\* A variant of onopen that reads the buffer size from the current settings
\* instead of the settings its closure captured.
onopen_ReadsLiveSettings(s, created) ==
  /\ Idle
  /\ transport[s] = "pending"
  /\ created \/ inputCtx[s] = "closed"
  /\ liveActive' = TRUE
  /\ connectionState' = "CONNECTED"
  /\ processor' = IF created THEN [processor EXCEPT ![s] = "connected"]
                             ELSE processor
  /\ bufferSize' = IF created
                     THEN [bufferSize EXCEPT ![s] = settings.bufferSize]
                     ELSE bufferSize
  /\ scriptProcessorRef' = IF created THEN s ELSE scriptProcessorRef
  /\ transport' = [transport EXCEPT ![s] =
                     IF closeRequested[s] THEN "closing" ELSE "open"]
  /\ UNCHANGED <<isTtsProcessing, settings, settingsOf, sampleRate, tab, error, isOutputPaused, audioContextRef,
                 inputContextRef, sessionPromiseRef, mediaStreamRef,
                 playback, inputCtx, outputCtx, currentTime, stream,
                 closeRequested, nCalls, pc>>

\* onopen of call s.  The capture node is created on the input context of
\* the call (the closure's inputCtx); creating a node on a context that was
\* closed meanwhile either throws, which ends the callback there, or gives a
\* node that never runs: both are outcomes a browser can produce.  The
\* promise of ai.live.connect resolves right after the callback, and a
\* close that was waiting for it runs then.
onopen(s, created) ==
  /\ Idle
  /\ transport[s] = "pending"
  /\ created \/ inputCtx[s] = "closed"
  /\ liveActive' = TRUE
  /\ connectionState' = "CONNECTED"
  /\ processor' = IF created THEN [processor EXCEPT ![s] = "connected"]
                             ELSE processor
  /\ bufferSize' = IF created
                     THEN [bufferSize EXCEPT ![s] = settingsOf[s].bufferSize]
                     ELSE bufferSize
  /\ scriptProcessorRef' = IF created THEN s ELSE scriptProcessorRef
  /\ transport' = [transport EXCEPT ![s] =
                     IF closeRequested[s] THEN "closing" ELSE "open"]
  /\ UNCHANGED <<isTtsProcessing, settings, settingsOf, sampleRate, tab, error, isOutputPaused, audioContextRef,
                 inputContextRef, sessionPromiseRef, mediaStreamRef,
                 playback, inputCtx, outputCtx, currentTime, stream,
                 closeRequested, nCalls, pc>>

\* processor.onaudioprocess of call s: the capture node fires while it is
\* connected and its context runs; the frame is handed to
\* session.sendRealtimeInput by a then-callback on the promise of the same
\* call, which runs once that promise has resolved.  No program variable
\* changes; the frame and the blob made of it are noted.
onaudioprocess(s, data) ==
  /\ Idle
  /\ processor[s] = "connected"
  /\ inputCtx[s] = "running"
  /\ transport[s] \notin {"none", "pending"}
  /\ inputData' = data
  /\ pcmBlob' = createBlob(data)
  /\ UNCHANGED <<reactState, refs, playback, objects, nCalls, pc>>

\* A variant of ClockFloor that restarts the schedule at the clock.
ClockFloor_TakesClock(nst, now) == now

\* The value Math.max leaves in nextStartTimeRef when the clock reads now.
ClockFloor(nst, now) == Max(nst, now)

\* A variant of onmessage that moves the schedule clock up to the output
\* clock for every event, with or without a payload.
onmessage_FloorsAlways(s, dur) ==
  /\ transport[s] = "open"
  /\ Len(pendingMsg) < MaxPending
  /\ Len(scheduled) + Len(pendingMsg) < MaxBuffers
  /\ IF dur # 0 /\ audioContextRef # 0 /\ outputCtx[audioContextRef] # "closed"
       THEN /\ nextStartTimeRef' =
                 ClockFloor(nextStartTimeRef, currentTime[audioContextRef])
            /\ pendingMsg' = Append(pendingMsg,
                 [sess |-> s, ctx |-> audioContextRef, dur |-> dur,
                  rate |-> settingsOf[s].outputSampleRate,
                  now |-> currentTime[audioContextRef]])
       ELSE /\ nextStartTimeRef' =
                 IF audioContextRef # 0
                   THEN ClockFloor(nextStartTimeRef, currentTime[audioContextRef])
                   ELSE nextStartTimeRef
            /\ UNCHANGED pendingMsg
  /\ UNCHANGED <<reactState, refs, sourcesRef, scheduled, endedSeen, objects,
                 nCalls, pc>>

\* onmessage of call s up to its await; dur = 0 stands for an event without
\* an audio payload.  The handler reads audioContextRef, not the output
\* context of its own call.
onmessage(s, dur) ==
  /\ transport[s] = "open"
  /\ Len(pendingMsg) < MaxPending
  /\ Len(scheduled) + Len(pendingMsg) < MaxBuffers
  /\ IF dur # 0 /\ audioContextRef # 0 /\ outputCtx[audioContextRef] # "closed"
       THEN /\ nextStartTimeRef' =
                 ClockFloor(nextStartTimeRef, currentTime[audioContextRef])
            /\ pendingMsg' = Append(pendingMsg,
                 [sess |-> s, ctx |-> audioContextRef, dur |-> dur,
                  rate |-> settingsOf[s].outputSampleRate,
                  now |-> currentTime[audioContextRef]])
       ELSE UNCHANGED <<nextStartTimeRef, pendingMsg>>
  /\ UNCHANGED <<reactState, refs, sourcesRef, scheduled, endedSeen, objects,
                 nCalls, pc>>

\* A variant of onmessageResume in which connect() between two contexts
\* does not throw.
onmessageResume_ConnectsAcross ==
  /\ pendingMsg # << >>
  /\ LET m == Head(pendingMsg) IN
       /\ pendingMsg' = Tail(pendingMsg)
       /\ IF TRUE
            THEN /\ scheduled' = Append(scheduled,
                      [sess |-> m.sess, ctx |-> m.ctx,
                       start |-> nextStartTimeRef, dur |-> m.dur,
                       now |-> m.now, rate |-> m.rate,
                       paused |-> outputCtx[m.ctx] = "suspended"])
                 /\ nextStartTimeRef' = nextStartTimeRef + m.dur
                 /\ sourcesRef' = sourcesRef \cup {Len(scheduled) + 1}
            ELSE UNCHANGED <<scheduled, nextStartTimeRef, sourcesRef>>
  /\ UNCHANGED <<reactState, refs, endedSeen, objects, nCalls, pc>>

\* The continuation of the oldest suspended onmessage handler (the
\* continuations are microtasks and run in the order the handlers
\* suspended).  The log notes whether the context was suspended: nothing
\* runs between a handler's start and its continuation that could change
\* that.
\* source.connect(outputNode) joins a source of the context read from
\* audioContextRef to the gain node of the handler's own call; across two
\* contexts it throws and the buffer is never started.
onmessageResume ==
  /\ pendingMsg # << >>
  /\ LET m == Head(pendingMsg) IN
       /\ pendingMsg' = Tail(pendingMsg)
       /\ IF m.ctx = m.sess
            THEN /\ scheduled' = Append(scheduled,
                      [sess |-> m.sess, ctx |-> m.ctx,
                       start |-> nextStartTimeRef, dur |-> m.dur,
                       now |-> m.now, rate |-> m.rate,
                       paused |-> outputCtx[m.ctx] = "suspended"])
                 /\ nextStartTimeRef' = nextStartTimeRef + m.dur
                 /\ sourcesRef' = sourcesRef \cup {Len(scheduled) + 1}
            ELSE UNCHANGED <<scheduled, nextStartTimeRef, sourcesRef>>
  /\ UNCHANGED <<reactState, refs, endedSeen, objects, nCalls, pc>>

\* A variant of the 'ended' listener that empties the set.
ended_ClearsAll(i) ==
  /\ Idle
  /\ i \in sourcesRef
  /\ currentTime[scheduled[i].ctx] >= scheduled[i].start + scheduled[i].dur
  /\ sourcesRef' = {}
  /\ endedSeen' = endedSeen \cup {i}
  /\ UNCHANGED <<reactState, refs, nextStartTimeRef, pendingMsg, scheduled,
                 objects, nCalls, pc>>

\* The 'ended' listener of buffer source i; the event fires once, when the
\* clock of the source's context has passed the end of the buffer.
ended(i) ==
  /\ Idle
  /\ i \in sourcesRef
  /\ currentTime[scheduled[i].ctx] >= scheduled[i].start + scheduled[i].dur
  /\ sourcesRef' = sourcesRef \ {i}
  /\ endedSeen' = endedSeen \cup {i}
  /\ UNCHANGED <<reactState, refs, nextStartTimeRef, pendingMsg, scheduled,
                 objects, nCalls, pc>>

\* onclose of call s: the transport closed, on its own or after a close
\* request or an error.
onclose(s) ==
  /\ Idle
  /\ transport[s] \in {"open", "closing"}
  /\ transport' = [transport EXCEPT ![s] = "closed"]
  /\ liveActive' = FALSE
  /\ connectionState' = "DISCONNECTED"
  /\ UNCHANGED <<isTtsProcessing, settings, config, tab, error, isOutputPaused, refs, playback, inputCtx,
                 outputCtx, currentTime, stream, processor, closeRequested,
                 nCalls, pc>>

\* onerror of call s with error e: setError, setConnectionState('ERROR'),
\* then stopLiveSession, whose setConnectionState('DISCONNECTED') is the
\* last set of the handler.
onerror(s, e) ==
  /\ Idle
  /\ transport[s] \in {"pending", "open"}
  /\ error' = <<"Live", "Session", "Error", ":">> \o formatGeminiError(e)
  /\ stopLiveSession([transport EXCEPT ![s] = "closing"])
  /\ UNCHANGED <<isTtsProcessing, settings, config, tab, isOutputPaused, refs, playback, currentTime, nCalls, pc>>

\* handleTTS up to its await, called from the button of the TTS tab, which
\* is disabled while a request is being processed and while the text is
\* empty: setIsTtsProcessing(true), setError(null).
handleTTS ==
  /\ Idle
  /\ tab = "TTS"
  /\ ~isTtsProcessing
  /\ isTtsProcessing' = TRUE
  /\ error' = Null
  /\ UNCHANGED <<tab, liveActive, isOutputPaused, connectionState, settings,
                 refs, playback, objects, nCalls, pc>>

\* generateSpeech resolved and the speech, if any, was decoded and started
\* on a context of its own: setIsTtsProcessing(false).
generateSpeechResolved ==
  /\ Idle
  /\ isTtsProcessing
  /\ isTtsProcessing' = FALSE
  /\ UNCHANGED <<tab, liveActive, error, isOutputPaused, connectionState,
                 settings, refs, playback, objects, nCalls, pc>>

\* generateSpeech (or the decoding of what it returned) failed with e: the
\* catch sets the error, the finally block clears the flag.
generateSpeechRejected(e) ==
  /\ Idle
  /\ isTtsProcessing
  /\ error' = formatGeminiError(e)
  /\ isTtsProcessing' = FALSE
  /\ UNCHANGED <<tab, liveActive, isOutputPaused, connectionState, settings,
                 refs, playback, objects, nCalls, pc>>

\* The visualizer effect has not yet run for the state last rendered.
EffectPending == mounted /\ effectDeps # <<tab, liveActive>>

\* A variant of the visualizer effect that cancels nothing.
visualizerEffect_NoCancel ==
  /\ EffectPending
  /\ effectDeps' = <<tab, liveActive>>
  /\ IF tab = "LIVE" /\ liveActive
       THEN /\ rafCount < MaxRaf
            /\ rafCount' = rafCount + 1
            /\ animationFrameRef' = rafCount + 1
            /\ rafPending' = rafPending \cup {rafCount + 1}
       ELSE UNCHANGED <<rafPending, animationFrameRef, rafCount>>
  /\ UNCHANGED <<reactState, refs, playback, objects, nCalls, pc, observers,
                 mounted>>

\* The visualizer effect, run after a render in which tab or liveActive
\* differs from the render before.  On the live tab (where the canvas is
\* rendered) with liveActive it calls draw(), which ends by requesting the
\* next frame and storing its id; otherwise it cancels the frame whose id
\* the ref holds.
visualizerEffect ==
  /\ EffectPending
  /\ effectDeps' = <<tab, liveActive>>
  /\ IF tab = "LIVE" /\ liveActive
       THEN /\ rafCount < MaxRaf
            /\ rafCount' = rafCount + 1
            /\ animationFrameRef' = rafCount + 1
            /\ rafPending' = rafPending \cup {rafCount + 1}
       ELSE /\ rafPending' =
                 IF animationFrameRef # 0
                   THEN rafPending \ {animationFrameRef}
                   ELSE rafPending
            /\ UNCHANGED <<animationFrameRef, rafCount>>
  /\ UNCHANGED <<reactState, refs, playback, objects, nCalls, pc, observers,
                 mounted>>

\* The frame callback with the given id runs draw, which requests the next
\* frame and stores its id.
draw(id) ==
  /\ id \in rafPending
  /\ rafCount < MaxRaf
  /\ rafCount' = rafCount + 1
  /\ animationFrameRef' = rafCount + 1
  /\ rafPending' = (rafPending \ {id}) \cup {rafCount + 1}
  /\ UNCHANGED <<reactState, refs, playback, objects, nCalls, pc, observers,
                 mounted, effectDeps>>

\* The component is unmounted: the cleanup stops the session and cancels
\* the frame whose id the ref holds.
unmount ==
  /\ Idle
  /\ mounted
  /\ mounted' = FALSE
  /\ stopLiveSession(transport)
  /\ rafPending' =
       IF animationFrameRef # 0
         THEN rafPending \ {animationFrameRef}
         ELSE rafPending
  /\ UNCHANGED <<isTtsProcessing, settings, config, tab, error, isOutputPaused,
                 refs, playback, currentTime, nCalls, pc, effectDeps,
                 animationFrameRef, rafCount>>

\* Time passes: the clock of every running output context advances by one
\* tick (a clock that has reached MaxTime is no longer followed).
Tick ==
  /\ Idle
  /\ \E s \in Sessions : outputCtx[s] = "running" /\ currentTime[s] < MaxTime
  /\ currentTime' =
       [s \in Sessions |->
          IF outputCtx[s] = "running" /\ currentTime[s] < MaxTime
            THEN currentTime[s] + 1 ELSE currentTime[s]]
  /\ UNCHANGED <<reactState, config, refs, playback, inputCtx, outputCtx, stream,
                 processor, transport, closeRequested, nCalls, pc>>

\* ------------------------------------------------------------ specifications
\* A call of startLiveSession is in progress until its transport has opened
\* or the call has failed.
InProgress(s) == pc[s] = "awaitMic" \/ transport[s] = "pending"

\* What the observers record of a step.
NoSend   ==
  /\ lastSent' = 0
  /\ inputData' = << >>
  /\ pcmBlob' = NoBlob
  /\ UNCHANGED audioBuf
NoStop   == UNCHANGED stoppedInStart
NoEnd    == UNCHANGED transportEnded
NoFrame  == UNCHANGED visual
Quiet    == NoStop /\ NoSend /\ NoEnd /\ NoFrame
StopSeen ==
  /\ stoppedInStart' = [s \in Sessions |-> stoppedInStart[s] \/ InProgress(s)]
  /\ NoSend
  /\ NoFrame
Started  == NoStop /\ NoSend /\ NoFrame /\ transportEnded' = FALSE
Ended(s) == transportEnded' = (transportEnded \/ transport[s] \in {"pending", "open"})

\* The inputs tried on the session's life cycle: the tab the session lives
\* on and one other tab, one transport error; the playback specification
\* tries one rejection of getUserMedia, the life cycle all of them.
TabsTried == {"LIVE", "TTS"}
MicErrorsTried == {"NotAllowedError"}
TransportErrorsTried == {NewError(<<"429", "Too", "Many", "Requests">>)}

\* The sample values tried: both ends of [-1, 1], their neighbours, the
\* values around zero and two values in between.
SamplesTried ==
  {-FullScale, 1 - FullScale, -Scale - 1, -1, 0, 1, Scale, FullScale - 1,
   FullScale}

\* Every frame of at most MaxFrame samples.
Frames == UNION {[1..n -> SamplesTried] : n \in 0..MaxFrame}

\* The one frame the life cycle captures.
FramesTried == {<<0>>}

\* The life cycle of the session and its capture path.  The playback
\* handlers, the Pause button and the clock are left to SpecPlayback: none
\* of them changes what these steps read (a suspended context is closed by
\* stopLiveSession like a running one).
Next ==
  \/ startLiveSession /\ Started
  \/ \E s \in Sessions : getUserMediaResolved(s) /\ Quiet
  \/ \E s \in Sessions, name \in MicErrorNames :
        getUserMediaRejected(s, name) /\ Quiet
  \/ EndSession /\ StopSeen /\ NoEnd
  \/ \E t \in TabsTried : TabClick(t) /\ StopSeen /\ NoEnd
  \/ \E s \in Sessions, created \in BOOLEAN : onopen(s, created) /\ Quiet
  \/ \E s \in Sessions, data \in FramesTried :
        onaudioprocess(s, data) /\ NoStop /\ NoEnd /\ NoFrame /\ lastSent' = s
           /\ UNCHANGED audioBuf
  \/ \E s \in Sessions : onclose(s) /\ NoStop /\ NoSend /\ NoFrame /\ Ended(s)
  \/ \E s \in Sessions, e \in TransportErrorsTried :
        onerror(s, e) /\ StopSeen /\ Ended(s)

Spec == Init /\ [][Next]_vars

\* The playback scheduler on top of the life cycle.  The observers of the
\* capture path are not followed here.
NextPlayback ==
  \/ startLiveSession /\ UNCHANGED <<observers, visual>>
  \/ \E s \in Sessions : getUserMediaResolved(s) /\ UNCHANGED <<observers, visual>>
  \/ \E s \in Sessions, name \in MicErrorsTried :
        getUserMediaRejected(s, name) /\ UNCHANGED <<observers, visual>>
  \/ EndSession /\ UNCHANGED <<observers, visual>>
  \/ TabClick("LIVE") /\ UNCHANGED <<observers, visual>>
  \/ togglePauseOutput /\ UNCHANGED <<observers, visual>>
  \/ \E s \in Sessions, created \in BOOLEAN :
        onopen(s, created) /\ UNCHANGED <<observers, visual>>
  \/ \E s \in Sessions : onclose(s) /\ UNCHANGED <<observers, visual>>
  \/ \E s \in Sessions, e \in TransportErrorsTried :
        onerror(s, e) /\ UNCHANGED <<observers, visual>>
  \/ \E s \in Sessions, dur \in {0} \cup Durations :
        onmessage(s, dur) /\ UNCHANGED <<observers, visual>>
  \/ onmessageResume /\ UNCHANGED <<observers, visual>>
  \/ \E i \in 1..MaxBuffers : ended(i) /\ UNCHANGED <<observers, visual>>
  \/ Tick /\ UNCHANGED <<observers, visual>>

SpecPlayback == Init /\ [][NextPlayback]_vars

\* The values tried for each setting: the default and one other value (for
\* the input rate, another of the four rates the panel offers).
SettingsTried ==
  [inputSampleRate |-> {16000, 24000},
   outputSampleRate |-> {24000, 48000},
   bufferSize |-> {4096, 1024}]

\* The session with its settings: start, capture, playback and stop, while
\* the settings panel changes the settings at any moment.
NextSettings ==
  \/ \E key \in DOMAIN SettingsTried : \E value \in SettingsTried[key] :
        handleSettingChange(key, value) /\ Quiet
  \/ startLiveSession /\ Quiet
  \/ \E s \in Sessions : getUserMediaResolved(s) /\ Quiet
  \/ EndSession /\ Quiet
  \/ \E s \in Sessions : onopen(s, TRUE) /\ Quiet
  \/ \E s \in Sessions, data \in FramesTried :
        onaudioprocess(s, data) /\ NoStop /\ NoEnd /\ NoFrame /\ lastSent' = s
           /\ UNCHANGED audioBuf
  \/ \E s \in Sessions : onmessage(s, 1) /\ Quiet
  \/ onmessageResume /\ Quiet
  \/ \E s \in Sessions : onclose(s) /\ Quiet

SpecSettings == Init /\ [][NextSettings]_vars

\* The life cycle of the session next to the speech panel of the TTS tab.
NextTabs ==
  \/ startLiveSession /\ Started
  \/ \E s \in Sessions : getUserMediaResolved(s) /\ Quiet
  \/ \E s \in Sessions, name \in MicErrorsTried :
        getUserMediaRejected(s, name) /\ Quiet
  \/ EndSession /\ StopSeen /\ NoEnd
  \/ \E t \in TabsTried : TabClick(t) /\ StopSeen /\ NoEnd
  \/ \E s \in Sessions, created \in BOOLEAN : onopen(s, created) /\ Quiet
  \/ \E s \in Sessions : onclose(s) /\ NoStop /\ NoSend /\ NoFrame /\ Ended(s)
  \/ \E s \in Sessions, e \in TransportErrorsTried :
        onerror(s, e) /\ StopSeen /\ Ended(s)
  \/ handleTTS /\ Quiet
  \/ generateSpeechResolved /\ Quiet
  \/ \E e \in TransportErrorsTried : generateSpeechRejected(e) /\ Quiet

SpecTabs == Init /\ [][NextTabs]_vars

\* A handler runs once the effects of the last render have run; the
\* buttons exist while the component is mounted.
Flushed == ~EffectPending
Shown   == mounted /\ ~EffectPending

\* The life cycle of the session with the visualizer: the effect of each
\* render, the frame callbacks, and the unmounting of the component.
NextVisualizer ==
  \/ startLiveSession /\ Shown /\ Started
  \/ \E s \in Sessions : getUserMediaResolved(s) /\ Flushed /\ Quiet
  \/ \E s \in Sessions, name \in MicErrorsTried :
        getUserMediaRejected(s, name) /\ Flushed /\ Quiet
  \/ EndSession /\ Shown /\ StopSeen /\ NoEnd
  \/ \E t \in TabsTried : TabClick(t) /\ Shown /\ StopSeen /\ NoEnd
  \/ \E s \in Sessions : onopen(s, TRUE) /\ Flushed /\ Quiet
  \/ \E s \in Sessions :
        onclose(s) /\ Flushed /\ NoStop /\ NoSend /\ NoFrame /\ Ended(s)
  \/ visualizerEffect
  \/ \E id \in 1..MaxRaf : draw(id)
  \/ /\ unmount
     /\ Flushed
     /\ stoppedInStart' = [s \in Sessions |-> stoppedInStart[s] \/ InProgress(s)]
     /\ NoSend /\ NoEnd

SpecVisualizer == Init /\ [][NextVisualizer]_vars

\* The codec on its own: a frame is drawn, createBlob is applied to it, and
\* what createBlob returned is decoded the way onmessage decodes a payload.
InitCodec ==
  /\ InitLive
  /\ inputData \in Frames
  /\ pcmBlob = NoBlob
  /\ audioBuf = NoBuffer

ApplyCreateBlob ==
  /\ pcmBlob = NoBlob
  /\ pcmBlob' = createBlob(inputData)
  /\ UNCHANGED <<reactState, refs, playback, objects, nCalls, pc,
                 stoppedInStart, transportEnded, lastSent, inputData, audioBuf,
                 visual>>

ApplyDecode(numChannels) ==
  /\ pcmBlob # NoBlob
  /\ audioBuf = NoBuffer
  /\ audioBuf' = decodeAudioData(decode(pcmBlob.data),
                                 settings.outputSampleRate, numChannels)
  /\ UNCHANGED <<reactState, refs, playback, objects, nCalls, pc,
                 stoppedInStart, transportEnded, lastSent, inputData, pcmBlob,
                 visual>>

NextCodec ==
  \/ ApplyCreateBlob
  \/ \E numChannels \in 1..MaxChannels : ApplyDecode(numChannels)

SpecCodec == InitCodec /\ [][NextCodec]_vars

\* ------------------------------------------------------------ properties
CtxOpen(c) == c \in {"running", "suspended"}

\* The capture node of call s is producing frames.
Capturing(s) == processor[s] = "connected" /\ inputCtx[s] = "running"

TransportLive(s) == transport[s] \in {"pending", "open", "closing"}

\* Nothing of any call holds the microphone or an audio context.
NothingHeld ==
  \A s \in Sessions :
     /\ stream[s] # "live"
     /\ ~CtxOpen(inputCtx[s])
     /\ ~CtxOpen(outputCtx[s])

\* Everything call s acquired is released and its session is being closed.
TornDown(s) ==
  /\ ~Capturing(s)
  /\ processor[s] # "connected"
  /\ stream[s] # "live"
  /\ closeRequested[s] \/ transport[s] = "closed"
  /\ ~CtxOpen(inputCtx[s])
  /\ ~CtxOpen(outputCtx[s])

StopStep == EndSession \/ \E t \in TabsTried : TabClick(t)

\* C1: a step that is a call of stopLiveSession (from the End Session
\* button or a tab button, whatever the connection state) leaves no
\* microphone track live and no audio context open.
C1_StopLeavesNothingHeld == [][StopStep => NothingHeld']_vars

\* All callbacks that were pending for call s have run: getUserMedia has
\* settled, the transport has opened or failed, a requested close is done.
Settled(s) == pc[s] # "awaitMic" /\ transport[s] \notin {"pending", "closing"}

\* C2: when stopLiveSession ran while call s of startLiveSession was in
\* progress, then once the callbacks of that call have run its microphone
\* is not held, its contexts are not open, its capture node produces no
\* frames and its transport session is closed (or was never created).
C2_StopDuringStartReleases ==
  \A s \in Sessions :
     stoppedInStart[s] /\ Settled(s) =>
        /\ stream[s] # "live"
        /\ ~CtxOpen(inputCtx[s]) /\ ~CtxOpen(outputCtx[s])
        /\ ~Capturing(s)
        /\ transport[s] \in {"none", "closed"}

\* C3: a step that is the onerror callback leaves connectionState ERROR
\* (the claim goes on: and it stays ERROR until the next startLiveSession).
C3_ErrorStateAfterOnerror ==
  [][(\E s \in Sessions, e \in TransportErrorsTried : onerror(s, e))
       => connectionState' = "ERROR"]_vars

\* C4: when onerror of call s runs while the state is CONNECTED and the
\* session of s is open, the step itself tears call s down: no further
\* frame, capture node disconnected, tracks stopped, close requested, both
\* contexts closed.
C4_OnerrorTearsDown ==
  [][\A s \in Sessions, e \in TransportErrorsTried :
        (connectionState = "CONNECTED" /\ transport[s] = "open" /\ onerror(s, e))
          => TornDown(s)']_vars

\* C5: when onclose of call s takes the state from CONNECTED to
\* DISCONNECTED, capture has stopped, the capture node is disconnected, the
\* microphone is released and both contexts of the call are closed.
C5_OncloseTearsDown ==
  [][\A s \in Sessions :
        (connectionState = "CONNECTED" /\ onclose(s))
          => (/\ ~Capturing(s)
              /\ processor[s] # "connected"
              /\ stream[s] # "live"
              /\ ~CtxOpen(inputCtx[s])
              /\ ~CtxOpen(outputCtx[s]))']_vars

\* C6: a captured frame is handed to sendRealtimeInput only while
\* connectionState is CONNECTED.
C6_SendOnlyWhileConnected == lastSent # 0 => connectionState = "CONNECTED"

\* C7: no captured frame is sent on the transport of a call before the
\* onopen callback of that call has fired, and the capture node of a call
\* exists only once its onopen has fired.
C7_NoFrameBeforeOpen ==
  /\ lastSent # 0 => transport[lastSent] \notin {"none", "pending"}
  /\ \A s \in Sessions :
        processor[s] # "none" => transport[s] \notin {"none", "pending"}

\* A frame of a call was just sent on its open session.
C7_Witness ==
  /\ lastSent # 0
  /\ transport[lastSent] = "open"
  /\ processor[lastSent] = "connected"

\* C8: at most one transport session, one microphone stream and one pair of
\* audio contexts are live at any time.
C8_AtMostOneLive ==
  /\ Cardinality({s \in Sessions : TransportLive(s)}) <= 1
  /\ Cardinality({s \in Sessions : stream[s] = "live"}) <= 1
  /\ Cardinality({s \in Sessions :
                    CtxOpen(inputCtx[s]) \/ CtxOpen(outputCtx[s])}) <= 1

\* The buffers the onmessage handler of call s has started, in order.
BuffersOf(s) == SelectSeq(scheduled, LAMBDA b : b.sess = s)

\* Every pair of consecutive buffers of one call: the later one starts no
\* earlier than the earlier one ends, and every buffer starts no earlier
\* than the clock value read on its arrival.
ScheduleOrdered ==
  \A s \in Sessions :
     LET B == BuffersOf(s) IN
       /\ \A i \in 1..Len(B) : B[i].start >= B[i].now
       /\ \A i \in 1..(Len(B) - 1) : B[i + 1].start >= B[i].start + B[i].dur

\* C9: consecutive buffers of a session satisfy start(i+1) >= start(i) +
\* duration(i) and start(i+1) >= the output clock read when i+1 was
\* scheduled, and nextStartTimeRef never decreases.
C9_ScheduleMonotone ==
  /\ []ScheduleOrdered
  /\ [][nextStartTimeRef' >= nextStartTimeRef]_vars

\* Two buffers of one call, the second one arriving while the first is
\* still playing: it starts when the first ends, later than the clock read
\* on its arrival.
C9_Witness ==
  \E s \in Sessions :
     LET B == BuffersOf(s) IN
       /\ Len(B) >= 2
       /\ B[2].start >= B[1].start + B[1].dur
       /\ B[2].now < B[1].start + B[1].dur
       /\ B[2].start > B[2].now

RECURSIVE SumDur(_, _)
\* The total duration of the first k buffers of B.
SumDur(B, k) == IF k = 0 THEN 0 ELSE SumDur(B, k - 1) + B[k].dur

\* Every buffer of B but the first arrived before its predecessor finished.
BackToBack(B) ==
  \A i \in 2..Len(B) : B[i].now < B[i - 1].start + B[i - 1].dur

\* C10: in any session whose payloads arrive back to back, buffer 1 starts
\* at the output clock read on its arrival and buffer k starts at that time
\* plus the durations of buffers 1..k-1.
C10_GaplessFromArrival ==
  \A s \in Sessions :
     LET B == BuffersOf(s) IN
       (Len(B) >= 1 /\ BackToBack(B)) =>
          \A k \in 1..Len(B) : B[k].start = B[1].now + SumDur(B, k - 1)

\* C11: every step that is a call of startLiveSession leaves the schedule
\* clock nextStartTimeRef at zero and the set of active buffer sources
\* empty.
C11_StartResetsSchedule ==
  [][startLiveSession => (nextStartTimeRef' = 0 /\ sourcesRef' = {})]_vars

\* C14: a step in which getUserMedia of call s is rejected (the call goes
\* from awaiting the microphone to failed) leaves connectionState ERROR and
\* a non-null error, and ai.live.connect is not invoked for that call,
\* neither in that step nor later: after every step, a failed call has no
\* transport session.
C14_MicRejectedEndsInError ==
  [][\A s \in Sessions :
       /\ pc'[s] = "failed" => transport'[s] = "none"
       /\ (pc[s] = "awaitMic" /\ pc'[s] = "failed") =>
             \A name \in MicErrorNames :
                getUserMediaRejected(s, name) =>
                   (connectionState' = "ERROR" /\ error' # Null)]_vars

\* A call has failed on its microphone and the state shows the error.
C14_Witness ==
  \E s \in Sessions :
     /\ pc[s] = "failed"
     /\ connectionState = "ERROR"
     /\ error # Null
     /\ transport[s] = "none"

\* The three kinds of microphone failure, by the name of the rejection.
MicKinds ==
  << {"NotAllowedError", "PermissionDeniedError"},
     {"NotFoundError", "DevicesNotFoundError"},
     MicErrorNames \ {"NotAllowedError", "PermissionDeniedError",
                      "NotFoundError", "DevicesNotFoundError"} >>
MicKindMsgs == <<MicDeniedMsg, MicNotFoundMsg, MicOtherMsg>>

\* C15: the three kinds have pairwise distinct messages, and when
\* getUserMedia is rejected with a name of kind k the error string shown
\* (after formatGeminiError) is the message of kind k.
C15_MicKindsDistinct ==
  [][\A s \in Sessions :
       (pc[s] = "awaitMic" /\ pc'[s] = "failed") =>
          /\ \A j, k \in 1..3 : j # k => MicKindMsgs[j] # MicKindMsgs[k]
          /\ \A k \in 1..3 : \A name \in MicKinds[k] :
                getUserMediaRejected(s, name) => error' = MicKindMsgs[k]]_vars

\* The device-not-found message is shown for a failed call.
C15_Witness ==
  /\ error = MicNotFoundMsg
  /\ \E s \in Sessions : pc[s] = "failed"

\* The transitions of connectionState the state machine allows; CONNECTED
\* is entered from CONNECTING only.
AllowedTransitions ==
  { <<"DISCONNECTED", "CONNECTING">>,
    <<"CONNECTING", "CONNECTED">>,
    <<"CONNECTING", "ERROR">>,
    <<"CONNECTING", "DISCONNECTED">>,
    <<"CONNECTED", "ERROR">>,
    <<"CONNECTED", "DISCONNECTED">>,
    <<"ERROR", "CONNECTING">>,
    <<"ERROR", "DISCONNECTED">> }

\* C16: connectionState changes only along the allowed transitions; in
\* particular it becomes CONNECTED only from CONNECTING.
C16_OnlyAllowedTransitions ==
  [][connectionState' # connectionState =>
        <<connectionState, connectionState'>> \in AllowedTransitions]_vars

\* C12: every audio payload received while the output context is open is
\* started exactly once (the continuation of its handler starts a source),
\* and the sources of one context are started in arrival order on
\* intervals that do not overlap.
C12_EveryPayloadScheduledInOrder ==
  /\ [][onmessageResume => Len(scheduled') = Len(scheduled) + 1]_vars
  /\ [](\A i, j \in 1..Len(scheduled) :
          (i < j /\ scheduled[i].ctx = scheduled[j].ctx) =>
             /\ scheduled[i].now <= scheduled[j].now
             /\ scheduled[j].start >= scheduled[i].start + scheduled[i].dur)

\* C13: a step of the Pause/Resume button changes neither a start time
\* already given nor the schedule clock, no step changes a start time once
\* given, and a buffer of a session that arrives while the output context
\* is suspended starts where the preceding buffer of the session ends, or at
\* the frozen clock if that buffer has already finished.
C13_PauseKeepsSchedule ==
  /\ [][togglePauseOutput =>
          (scheduled' = scheduled /\ nextStartTimeRef' = nextStartTimeRef)]_vars
  /\ [][\A i \in 1..Len(scheduled) :
          Len(scheduled') >= i /\ scheduled'[i] = scheduled[i]]_vars
  /\ [](\A s \in Sessions :
          LET B == BuffersOf(s) IN
            \A i \in 2..Len(B) :
               B[i].paused =>
                  B[i].start = Max(B[i - 1].start + B[i - 1].dur, B[i].now))

\* A session's second buffer arrived during a pause, behind a first buffer
\* that had not finished, and the output has been resumed since.
C13_Witness ==
  \E s \in Sessions :
     LET B == BuffersOf(s) IN
       /\ Len(B) >= 2
       /\ B[2].paused
       /\ B[2].start = B[1].start + B[1].dur
       /\ B[2].now < B[2].start
       /\ outputCtx[s] = "running"
       /\ ~isOutputPaused

\* The 16-bit values a blob carries.
Int16Of(blob) == Int16Array(decode(blob.data))

\* C17: in the blob createBlob makes of a frame, every full-scale sample
\* 1.0 is the 16-bit value 32767 (and every value is a 16-bit value).
C17_FullScaleEncodesToMax ==
  pcmBlob # NoBlob =>
     /\ Len(Int16Of(pcmBlob)) = Len(inputData)
     /\ \A i \in 1..Len(inputData) :
          /\ Int16Of(pcmBlob)[i] \in -32768..32767
          /\ inputData[i] = FullScale => Int16Of(pcmBlob)[i] = 32767

Abs(n) == IF n >= 0 THEN n ELSE -n

\* C18: for every frame with samples in [-1, 1], decoding what createBlob
\* returned as one channel, the way onmessage decodes (a captured frame is
\* never empty), gives as many samples, each within 1/32768 (two half
\* steps) of the sample it came from.
C18_RoundTripWithinQuantum ==
  (audioBuf.numberOfChannels = 1 /\ Len(inputData) > 0) =>
     /\ Len(getChannelData(audioBuf, 0)) = Len(inputData)
     /\ \A i \in 1..Len(inputData) :
          Abs(getChannelData(audioBuf, 0)[i] - inputData[i]) <= 2

\* C19: the MIME descriptor of every frame handed to sendRealtimeInput
\* declares the sample rate the input context of its session was created
\* with.
C19_MimeDeclaresInputRate ==
  lastSent # 0 =>
     pcmBlob.mimeType = <<"audio/pcm;rate=", sampleRate[lastSent].input>>

\* C20: a step of handleSettingChange changes no sample rate of a context,
\* no buffer size of a capture node and no buffer already decoded; the
\* contexts and the capture node of a call and every buffer its handler
\* decodes use the settings as they were when startLiveSession was called,
\* whatever the settings are now; and a call of startLiveSession uses the
\* settings as they are at that moment.
C20_SettingsApplyOnNextStart ==
  /\ [][(\E key \in DOMAIN SettingsTried : \E value \in SettingsTried[key] :
            handleSettingChange(key, value))
          => UNCHANGED <<sampleRate, bufferSize, scheduled>>]_vars
  /\ [][startLiveSession =>
          sampleRate'[nCalls + 1] =
             [input |-> settings.inputSampleRate,
              output |-> settings.outputSampleRate]]_vars
  /\ [](\A s \in Sessions :
          /\ pc[s] # "unused" =>
                sampleRate[s] = [input |-> settingsOf[s].inputSampleRate,
                                 output |-> settingsOf[s].outputSampleRate]
          /\ processor[s] # "none" => bufferSize[s] = settingsOf[s].bufferSize
          /\ \A i \in 1..Len(scheduled) :
                scheduled[i].sess = s =>
                   scheduled[i].rate = settingsOf[s].outputSampleRate)

\* All three settings were changed after a call started; the capture node
\* of the call was created since, and a buffer decoded, with the values of
\* the start.
C20_Witness ==
  \E s \in Sessions :
     /\ processor[s] = "connected"
     /\ settings.inputSampleRate # sampleRate[s].input
     /\ settings.outputSampleRate # sampleRate[s].output
     /\ settings.bufferSize # bufferSize[s]
     /\ bufferSize[s] = settingsOf[s].bufferSize
     /\ \E i \in 1..Len(scheduled) :
           /\ scheduled[i].sess = s
           /\ scheduled[i].rate # settings.outputSampleRate

\* What stopLiveSession acts on is released: the objects the refs point to.
StopTargetsReleased ==
  /\ sessionPromiseRef # 0 =>
        (closeRequested[sessionPromiseRef] /\ transport[sessionPromiseRef] # "open")
  /\ scriptProcessorRef # 0 => processor[scriptProcessorRef] = "disconnected"
  /\ mediaStreamRef # 0 => stream[mediaStreamRef] = "stopped"
  /\ inputContextRef # 0 => inputCtx[inputContextRef] = "closed"
  /\ audioContextRef # 0 => outputCtx[audioContextRef] = "closed"

\* The state a call of stopLiveSession leaves.
AlreadyStopped ==
  StopTargetsReleased /\ ~liveActive /\ connectionState = "DISCONNECTED"

C24_NoPayloadNoOp ==
  [][(\E s \in Sessions : onmessage(s, 0)) =>
        UNCHANGED <<nextStartTimeRef, sourcesRef, connectionState, error,
                    pendingMsg, scheduled>>]_vars

\* A session is open with a source playing and the output clock past the
\* schedule clock: an event without payload can arrive.
C24_Witness ==
  \E s \in Sessions :
     /\ transport[s] = "open"
     /\ audioContextRef = s
     /\ outputCtx[s] = "running"
     /\ sourcesRef # {}
     /\ currentTime[s] > nextStartTimeRef
     /\ pendingMsg = << >>
     /\ Len(scheduled) < MaxBuffers

\* C27: liveActive is true exactly when connectionState is CONNECTED.
C27_LiveActiveIffConnected == liveActive <=> (connectionState = "CONNECTED")

\* C28: every source started for a payload of call s is a source of the
\* output context of call s, started while audioContextRef pointed to that
\* context, at a time taken from the clock of that context.
C28_OwnContextOnly ==
  [][\A i \in 1..Len(scheduled') :
        /\ scheduled'[i].ctx = scheduled'[i].sess
        /\ i > Len(scheduled) =>
              /\ audioContextRef = scheduled'[i].sess
              /\ scheduled'[i].now = currentTime[scheduled'[i].sess]
              /\ scheduled'[i].start >= scheduled'[i].now]_vars

\* A payload of an older session arrived while audioContextRef points to the
\* context of a later call; its handler is suspended at its await.
C28_Witness ==
  \E k \in 1..Len(pendingMsg) :
     /\ pendingMsg[k].sess < pendingMsg[k].ctx
     /\ CtxOpen(outputCtx[pendingMsg[k].ctx])
     /\ CtxOpen(outputCtx[pendingMsg[k].sess])

\* C29: when getUserMedia of call s is rejected, the step leaves both
\* contexts of call s closed and no microphone track of it live.
C29_FailedStartReleases ==
  [][\A s \in Sessions :
        (pc[s] = "awaitMic" /\ pc'[s] = "failed") =>
           /\ ~CtxOpen(inputCtx'[s])
           /\ ~CtxOpen(outputCtx'[s])
           /\ stream'[s] # "live"]_vars


\* The signed 16-bit value the bytes hold, low byte first, at index k
\* (counted from 0).
SignedLE(bytes, k) ==
  LET u == bytes[2 * k + 1] + 256 * bytes[2 * k + 2] IN
    IF u >= 32768 THEN u - 65536 ELSE u

\* The bytes of the payload that was decoded.
PayloadBytes == decode(pcmBlob.data)

\* What the decoded buffer must be for N channels: N channel buffers of
\* (bytes / 2) / N samples, sample i of channel c being the value at index
\* i * N + c divided by 32768 (in half steps: times two).
DecodedAsInterleaved(N) ==
  /\ audioBuf.exception = ""
  /\ Len(audioBuf.channelData) = N
  /\ \A c \in 0..(N - 1) :
        /\ Len(getChannelData(audioBuf, c)) = (Len(PayloadBytes) \div 2) \div N
        /\ \A i \in 0..((Len(PayloadBytes) \div 2) \div N - 1) :
              getChannelData(audioBuf, c)[i + 1]
                 = 2 * SignedLE(PayloadBytes, i * N + c)

\* decodeAudioData was called for N channels with a payload a multiple of
\* 2N bytes long.
DecodedMultipleOf(N) ==
  /\ audioBuf.numberOfChannels = N
  /\ Len(PayloadBytes) % (2 * N) = 0

EndedStep(i) == i \notin endedSeen /\ endedSeen' = endedSeen \cup {i}

\* The set holds exactly the sources started whose 'ended' event has not
\* fired.
StartedNotEnded == sourcesRef = (1..Len(scheduled)) \ endedSeen

\* C25: sourcesRef holds exactly the buffer sources that were started and
\* whose 'ended' event has not fired yet; the 'ended' hook of a source
\* removes that source alone and changes neither the schedule clock nor
\* the buffers scheduled or their order; once every buffer started has
\* ended the set is empty.
C25_SourcesAreStartedNotEnded ==
  [][/\ StartedNotEnded /\ StartedNotEnded'
     /\ endedSeen' = 1..Len(scheduled') => sourcesRef' = {}
     /\ \A i \in 1..MaxBuffers :
           EndedStep(i) =>
              /\ sourcesRef' = sourcesRef \ {i}
              /\ UNCHANGED <<nextStartTimeRef, scheduled, pendingMsg>>]_vars

\* The first of two buffers has ended while the second has not: the set
\* holds the second alone.
C25_Witness ==
  /\ Len(scheduled) = 2
  /\ endedSeen = {1}
  /\ sourcesRef = {2}

\* The step invokes ai.live.connect: the session of a call goes from not
\* asked for to pending.
ConnectStep ==
  \E s \in Sessions : transport[s] = "none" /\ transport'[s] = "pending"

\* C23: once onclose or onerror has run, no step invokes ai.live.connect
\* and no step leaves the state CONNECTING or CONNECTED, until a step that
\* is a call of startLiveSession.
C23_NoReconnectAfterTransportEnd ==
  [][(transportEnded /\ nCalls' = nCalls) =>
        /\ ~ConnectStep
        /\ connectionState' \notin {"CONNECTING", "CONNECTED"}]_vars

\* C30: in every state in which connectionState is ERROR the error string
\* shown to the user is not null.
C30_ErrorStateHasMessage == connectionState = "ERROR" => error # Null

\* The live session is active: it is shown on the live tab.
VisualizerActive == tab = "LIVE" /\ liveActive

\* C22: once the visualizer effect has run for a state in which the live
\* session is not active (liveActive false, or another tab), no frame
\* callback is scheduled; and at no time is more than one draw loop
\* running (more than one frame callback scheduled).
C22_LoopOnlyWhileActive ==
  /\ Cardinality(rafPending) <= 1
  /\ (~EffectPending /\ ~VisualizerActive) => rafPending = {}

\* A draw loop that had run for at least one frame was stopped by the
\* effect when the session became inactive; the component is still mounted.
C22_Witness ==
  /\ mounted
  /\ ~EffectPending
  /\ ~VisualizerActive
  /\ rafCount >= 2
  /\ rafPending = {}

\* The output context the ref points to is suspended.
OutputSuspended ==
  audioContextRef # 0 /\ outputCtx[audioContextRef] = "suspended"

\* The step is a click on the Pause/Resume button.
PauseStep == isOutputPaused' # isOutputPaused /\ nCalls' = nCalls

\* C31: while liveActive is true, isOutputPaused is true exactly when the
\* output context the ref points to is suspended; every call of
\* startLiveSession leaves isOutputPaused false and that context running;
\* every click on the Pause/Resume button flips the flag and the state of
\* that context together.
C31_PausedIffSuspended ==
  [][/\ liveActive' => (isOutputPaused' <=> OutputSuspended')
     /\ nCalls' # nCalls =>
           /\ ~isOutputPaused'
           /\ outputCtx'[audioContextRef'] = "running"
     /\ PauseStep => (OutputSuspended' # OutputSuspended)]_vars

\* The step is a click on a tab button, or the unmounting of the component.
TabOrUnmountStep == (\E t \in TabsTried : TabClick(t)) \/ unmount

\* C32: every click on a tab button and the unmounting of the component
\* leave liveActive false, connectionState DISCONNECTED, no microphone
\* track live and no audio context open; after unmounting no frame
\* callback is scheduled, and after a click none is once the visualizer
\* effect has run.
C32_TabAndUnmountTearDown ==
  [][/\ TabOrUnmountStep =>
           /\ ~liveActive'
           /\ connectionState' = "DISCONNECTED"
           /\ NothingHeld'
           /\ ~EffectPending' => rafPending' = {}
     /\ (effectDeps' # effectDeps /\ ~liveActive') => rafPending' = {}]_vars
=============================================================================
